---------------------------- MODULE Spec2Model ----------------------------
(***************************************************************************)
(* A model of cedarwood's double-array trie (src/src/lib.rs, the standard  *)
(* variant, i.e. without the "reduced-trie" feature).                      *)
(*                                                                         *)
(* The trie object is the record built by `new` and transformed by the     *)
(* operators below; every operator is the function of the same name in     *)
(* lib.rs, its loops turned into RECURSIVE operators.  A record carries    *)
(* two scratch fields next to the fields of struct Cedar:                  *)
(*   st  : "ok", "panic" (an index out of bounds or an explicit panic!)    *)
(*         or "hang" (a loop that never ends);                             *)
(*   ret : the value the last function returned.                           *)
(* A byte has ByteBits bits (8 in the code), so a block has 2^ByteBits     *)
(* nodes and labels range over 0 .. 2^ByteBits - 1.                        *)
(***************************************************************************)
EXTENDS Integers, Sequences, FiniteSets, TLC

ByteBits == 3
MaxByte == 2
MaxKeyLen == 2
MaxValue == 1
MaxOps == 3
MaxBuild == 2

BlockSize == 2 ^ ByteBits
CEDAR_NO_VALUE == -1
max_trial == 1
ordered == TRUE

(***************************************************************************)
(* Integer helpers: i32 XOR in two's complement, `as u8`, `>> 8`.          *)
(***************************************************************************)
RECURSIVE XorNat(_, _)
XorNat(a, b) ==
    IF a = 0 THEN b
    ELSE IF b = 0 THEN a
    ELSE (((a % 2) + (b % 2)) % 2) + (2 * XorNat(a \div 2, b \div 2))

Xor(a, b) ==
    IF a >= 0 /\ b >= 0 THEN XorNat(a, b)
    ELSE IF a < 0 /\ b < 0 THEN XorNat(-a - 1, -b - 1)
    ELSE IF a < 0 THEN -XorNat(-a - 1, b) - 1
    ELSE -XorNat(a, -b - 1) - 1

AsU8(x) == x % BlockSize

\* The({e : x \in {v}}) is e with x standing for the value v, computed once
The(S) == CHOOSE x \in S : TRUE

BlockOf(e) == e \div BlockSize

(***************************************************************************)
(* Records of the data model.                                              *)
(***************************************************************************)
Node(b, ch) == [base_ |-> b, check |-> ch]

NInfoDefault == [sibling |-> 0, child |-> 0]

BlockNew ==
    [prev |-> 0, next |-> 0, num |-> BlockSize, reject |-> BlockSize + 1,
     trial |-> 0, e_head |-> 0]

new ==
    [array |-> [i \in 0 .. BlockSize - 1 |->
                  IF i = 0 THEN Node(0, -1)
                  ELSE IF i = 1 THEN Node(-(BlockSize - 1), -2)
                  ELSE IF i = BlockSize - 1 THEN Node(-(i - 1), -1)
                  ELSE Node(-(i - 1), -(i + 1))],
     n_infos |-> [i \in 0 .. BlockSize - 1 |-> NInfoDefault],
     blocks |-> [i \in 0 .. 0 |-> [BlockNew EXCEPT !.e_head = 1]],
     reject |-> [i \in 0 .. BlockSize |-> i + 1],
     blocks_head_full |-> 0,
     blocks_head_closed |-> 0,
     blocks_head_open |-> 0,
     capacity |-> BlockSize,
     size |-> BlockSize,
     st |-> "ok",
     ret |-> 0,
     in_use_taken |-> FALSE,
     stray_transfer |-> FALSE,
     consult_miscount |-> FALSE,
     root_resolved |-> FALSE]

Panic(c) == [c EXCEPT !.st = "panic"]

Hang(c) == [c EXCEPT !.st = "hang"]

\* `x as usize` used as an index of array / n_infos (both of length capacity)
InArr(c, i) == i >= 0 /\ i < c.capacity

\* ... of blocks (length capacity >> 8)
InBlk(c, i) == i >= 0 /\ i < c.capacity \div BlockSize

\* ... of the global reject table (length 257 in the code)
InRej(i) == i >= 0 /\ i <= BlockSize

\* more iterations than any terminating loop of the code can make
Fuel(c) == 4 * c.capacity + 4

(***************************************************************************)
(* Block lists.                                                            *)
(***************************************************************************)
ListHead(c, t) ==
    CASE t = "Open" -> c.blocks_head_open
      [] t = "Closed" -> c.blocks_head_closed
      [] t = "Full" -> c.blocks_head_full

SetListHead(c, t, v) ==
    CASE t = "Open" -> [c EXCEPT !.blocks_head_open = v]
      [] t = "Closed" -> [c EXCEPT !.blocks_head_closed = v]
      [] t = "Full" -> [c EXCEPT !.blocks_head_full = v]

pop_block(c, idx, from, last) ==
    IF c.st # "ok" THEN c
    ELSE IF last THEN SetListHead(c, from, 0)
    ELSE IF ~InBlk(c, idx) THEN Panic(c)
    ELSE LET b == c.blocks[idx] IN
         IF ~InBlk(c, b.prev) THEN Panic(c)
         ELSE LET c1 == [c EXCEPT !.blocks[b.prev].next = b.next] IN
              IF ~InBlk(c1, b.next) THEN Panic(c1)
              ELSE LET c2 == [c1 EXCEPT !.blocks[b.next].prev = b.prev] IN
                   IF idx = ListHead(c2, from) THEN SetListHead(c2, from, b.next) ELSE c2

push_block(c, idx, to, empty) ==
    IF c.st # "ok" THEN c
    ELSE IF ~InBlk(c, idx) THEN Panic(c)
    ELSE IF empty
         THEN SetListHead([c EXCEPT !.blocks[idx].next = idx, !.blocks[idx].prev = idx],
                      to, idx)
    ELSE LET h == ListHead(c, to) IN
         IF ~InBlk(c, h) THEN Panic(c)
         ELSE LET c1 == [c EXCEPT !.blocks[idx].prev = c.blocks[h].prev]
                  c2 == [c1 EXCEPT !.blocks[idx].next = h]
                  t == c2.blocks[h].prev
              IN IF ~InBlk(c2, t) THEN Panic(c2)
                 ELSE LET c3 == [c2 EXCEPT !.blocks[t].next = idx]
                          c4 == [c3 EXCEPT !.blocks[h].prev = idx]
                      IN SetListHead(c4, to, idx)

add_block_linear(c) ==
    IF c.st # "ok" THEN c
    ELSE LET cap == IF c.size = c.capacity THEN c.capacity + BlockSize ELSE c.capacity
             s == c.size
             idx == BlockOf(s)
         IN The({
            IF ~InBlk(c1, idx) \/ ~InArr(c1, s + BlockSize - 1) THEN Panic(c1)
            ELSE The({
                 The({ IF c3.st # "ok" THEN c3
                       ELSE [c3 EXCEPT !.size = s + BlockSize, !.ret = idx] :
                       c3 \in {push_block(c2, idx, "Open", c2.blocks_head_open = 0)} }) :
                 c2 \in {[c1 EXCEPT
                            !.blocks[idx].e_head = s,
                            !.array = [i \in 0 .. cap - 1 |->
                                IF i = s THEN Node(-(s + BlockSize - 1), -(s + 1))
                                ELSE IF i > s /\ i < s + BlockSize - 1
                                     THEN Node(-(i - 1), -(i + 1))
                                ELSE IF i = s + BlockSize - 1
                                     THEN Node(-(s + BlockSize - 2), -s)
                                ELSE c1.array[i]]]} }) :
            c1 \in {IF c.size = c.capacity
                    THEN [c EXCEPT
                            !.capacity = cap,
                            !.array = [i \in 0 .. cap - 1 |->
                                         IF i < c.capacity THEN c.array[i] ELSE Node(0, 0)],
                            !.n_infos = [i \in 0 .. cap - 1 |->
                                           IF i < c.capacity THEN c.n_infos[i]
                                           ELSE NInfoDefault],
                            !.blocks = [i \in 0 .. cap \div BlockSize - 1 |->
                                          IF i < c.capacity \div BlockSize THEN c.blocks[i]
                                          ELSE BlockNew]]
                    ELSE c} })

add_block(c) ==
    IF c.st # "ok" THEN c
    ELSE LET cap == IF c.size = c.capacity THEN 2 * c.capacity ELSE c.capacity
             s == c.size
             idx == BlockOf(s)
         IN The({
            IF ~InBlk(c1, idx) \/ ~InArr(c1, s + BlockSize - 1) THEN Panic(c1)
            ELSE The({
                 The({ IF c3.st # "ok" THEN c3
                       ELSE [c3 EXCEPT !.size = s + BlockSize, !.ret = idx] :
                       c3 \in {push_block(c2, idx, "Open", c2.blocks_head_open = 0)} }) :
                 c2 \in {[c1 EXCEPT
                            !.blocks[idx].e_head = s,
                            !.array = [i \in 0 .. cap - 1 |->
                                IF i = s THEN Node(-(s + BlockSize - 1), -(s + 1))
                                ELSE IF i > s /\ i < s + BlockSize - 1
                                     THEN Node(-(i - 1), -(i + 1))
                                ELSE IF i = s + BlockSize - 1
                                     THEN Node(-(s + BlockSize - 2), -s)
                                ELSE c1.array[i]]]} }) :
            c1 \in {IF c.size = c.capacity
                    THEN [c EXCEPT
                            !.capacity = cap,
                            !.array = [i \in 0 .. cap - 1 |->
                                         IF i < c.capacity THEN c.array[i] ELSE Node(0, 0)],
                            !.n_infos = [i \in 0 .. cap - 1 |->
                                           IF i < c.capacity THEN c.n_infos[i]
                                           ELSE NInfoDefault],
                            !.blocks = [i \in 0 .. cap \div BlockSize - 1 |->
                                          IF i < c.capacity \div BlockSize THEN c.blocks[i]
                                          ELSE BlockNew]]
                    ELSE c} })

\* block idx is met on the list of head `head`, followed through the next links
RECURSIVE on_list(_, _, _, _, _)
on_list(c, idx, head, b, fuel) ==
    IF head = 0 \/ fuel = 0 \/ ~InBlk(c, b) THEN FALSE
    ELSE IF b = idx THEN TRUE
    ELSE IF c.blocks[b].next = head THEN FALSE
    ELSE on_list(c, idx, head, c.blocks[b].next, fuel - 1)

\* the pairs of lists between which the code transfers a block
AdjacentLists ==
    {<<"Open", "Closed">>, <<"Closed", "Open">>, <<"Closed", "Full">>, <<"Full", "Closed">>}

\* stray_transfer is not a field of the code: it records a transfer between
\* lists that are not adjacent, or of a block that is not on the list `from`
transfer_block(c, idx, from, to, to_block_empty) ==
    IF c.st # "ok" THEN c
    ELSE IF ~InBlk(c, idx) THEN Panic(c)
    ELSE LET is_last == idx = c.blocks[idx].next
             is_empty == to_block_empty /\ c.blocks[idx].num # 0
             member == on_list(c, idx, ListHead(c, from), ListHead(c, from), Fuel(c))
             c0 == [c EXCEPT !.stray_transfer =
                                @ \/ ~member \/ <<from, to>> \notin AdjacentLists]
         IN push_block(pop_block(c0, idx, from, is_last), idx, to, is_empty)

(***************************************************************************)
(* Free-slot allocation and release.                                       *)
(***************************************************************************)
find_place(c) ==
    IF c.st # "ok" THEN c
    ELSE IF c.blocks_head_closed # 0
         THEN IF ~InBlk(c, c.blocks_head_closed) THEN Panic(c)
              ELSE [c EXCEPT !.ret = c.blocks[c.blocks_head_closed].e_head]
    ELSE IF c.blocks_head_open # 0
         THEN IF ~InBlk(c, c.blocks_head_open) THEN Panic(c)
              ELSE [c EXCEPT !.ret = c.blocks[c.blocks_head_open].e_head]
    ELSE The({ IF c1.st # "ok" THEN c1 ELSE [c1 EXCEPT !.ret = c1.ret * BlockSize] :
               c1 \in {add_block(c)} })

\* in_use_taken is not a field of the code: it records that pop_e_node was given
\* a node that is in use (the root, or a node with check >= 0)
pop_e_node(c, base, label, from) ==
    IF c.st # "ok" THEN c
    ELSE The({
         LET e == c0.ret
             idx == BlockOf(e)
         IN IF c0.st # "ok" THEN c0
            ELSE IF ~InArr(c0, e) THEN Panic(c0)
            ELSE LET n == c0.array[e]
                     c1 == [c0 EXCEPT !.blocks[idx].num = @ - 1,
                                      !.in_use_taken = @ \/ e = 0 \/ n.check >= 0]
                 IN The({
                    IF c2.st # "ok" THEN c2
                    ELSE LET c3 == [c2 EXCEPT
                                      !.array[e] = Node(IF label # 0 THEN -1 ELSE 0, from)]
                         IN IF base < 0
                            THEN IF ~InArr(c3, from) THEN Panic(c3)
                                 ELSE [c3 EXCEPT !.array[from].base_ = Xor(e, label),
                                                 !.ret = e]
                            ELSE [c3 EXCEPT !.ret = e] :
                    c2 \in {IF c1.blocks[idx].num = 0
                            THEN IF idx # 0
                                 THEN transfer_block(c1, idx, "Closed", "Full",
                                                     c1.blocks_head_full = 0)
                                 ELSE c1
                            ELSE IF ~InArr(c1, -n.base_) THEN Panic(c1)
                            ELSE LET c1a == [c1 EXCEPT !.array[-n.base_].check = n.check] IN
                                 IF ~InArr(c1a, -n.check) THEN Panic(c1a)
                                 ELSE LET c1b == [c1a EXCEPT !.array[-n.check].base_ = n.base_]
                                          c1c == IF e = c1b.blocks[idx].e_head
                                                 THEN [c1b EXCEPT
                                                         !.blocks[idx].e_head = -n.check]
                                                 ELSE c1b
                                      IN IF idx # 0 /\ c1c.blocks[idx].num = 1
                                            /\ c1c.blocks[idx].trial # max_trial
                                         THEN transfer_block(c1c, idx, "Open", "Closed",
                                                             c1c.blocks_head_closed = 0)
                                         ELSE c1c} }) :
         c0 \in {IF base < 0 THEN find_place(c) ELSE [c EXCEPT !.ret = Xor(base, label)]} })

push_e_node(c, e) ==
    IF c.st # "ok" THEN c
    ELSE LET idx == BlockOf(e) IN
         IF ~InBlk(c, idx) THEN Panic(c)
         ELSE LET c1 == [c EXCEPT !.blocks[idx].num = @ + 1] IN
              The({
                 IF c2.st # "ok" THEN c2
                 ELSE IF ~InRej(c2.blocks[idx].num) THEN Panic(c2)
                 ELSE LET c3 == IF c2.blocks[idx].reject < c2.reject[c2.blocks[idx].num]
                                THEN [c2 EXCEPT !.blocks[idx].reject =
                                                    c2.reject[c2.blocks[idx].num]]
                                ELSE c2
                      IN [c3 EXCEPT !.n_infos[e] = NInfoDefault] :
                 c2 \in {IF c1.blocks[idx].num = 1
                         THEN LET c1a == [c1 EXCEPT !.blocks[idx].e_head = e,
                                                    !.array[e] = Node(-e, -e)]
                              IN IF idx # 0
                                 THEN transfer_block(c1a, idx, "Full", "Closed",
                                                     c1a.blocks_head_closed = 0)
                                 ELSE c1a
                         ELSE LET prev == c1.blocks[idx].e_head IN
                              IF ~InArr(c1, prev) THEN Panic(c1)
                              ELSE LET next == -c1.array[prev].check
                                       c1a == [c1 EXCEPT !.array[e] = Node(-prev, -next)]
                                       c1b == [c1a EXCEPT !.array[prev].check = -e]
                                   IN IF ~InArr(c1b, next) THEN Panic(c1b)
                                      ELSE LET c1c == [c1b EXCEPT !.array[next].base_ = -e] IN
                                           The({ IF c1d.st # "ok" THEN c1d
                                                 ELSE [c1d EXCEPT !.blocks[idx].trial = 0] :
                                                 c1d \in {IF (c1c.blocks[idx].num = 2
                                                              \/ c1c.blocks[idx].trial = max_trial)
                                                             /\ idx # 0
                                                          THEN transfer_block(
                                                                   c1c, idx, "Closed", "Open",
                                                                   c1c.blocks_head_open = 0)
                                                          ELSE c1c} })} })

(***************************************************************************)
(* Sibling chains.  A place `c: &mut u8` of the code is a record           *)
(* [f |-> "child" or "sibling", i |-> node id].                            *)
(***************************************************************************)
Place(f, i) == [f |-> f, i |-> i]

Deref(c, p) == IF p.f = "child" THEN c.n_infos[p.i].child ELSE c.n_infos[p.i].sibling

Store(c, p, v) ==
    IF p.f = "child" THEN [c EXCEPT !.n_infos[p.i].child = v]
    ELSE [c EXCEPT !.n_infos[p.i].sibling = v]

\* the loop of push_sibling as it runs with ordered = false: one step, whatever the
\* labels of the siblings
\* the loop of push_sibling; returns [st, p]
RECURSIVE push_sibling_walk(_, _, _, _, _)
push_sibling_walk(c, p, base, label, fuel) ==
    IF fuel = 0 THEN [st |-> "hang", p |-> p]
    ELSE LET code == Deref(c, p)
             i == Xor(base, code)
         IN IF ~InArr(c, i) THEN [st |-> "panic", p |-> p]
            ELSE LET q == Place("sibling", i) IN
                 IF ~(ordered /\ Deref(c, q) # 0 /\ Deref(c, q) < label)
                 THEN [st |-> "ok", p |-> q]
                 ELSE push_sibling_walk(c, q, base, label, fuel - 1)

push_sibling(c, from, base, label, has_child) ==
    IF c.st # "ok" THEN c
    ELSE IF ~InArr(c, from) THEN Panic(c)
    ELSE LET keep_order == IF ordered THEN label > c.n_infos[from].child
                           ELSE c.n_infos[from].child = 0
         IN The({
            IF w.st # "ok" THEN [c EXCEPT !.st = w.st]
            ELSE LET sibling == Deref(c, w.p)
                     c1 == Store(c, w.p, label)
                     i == Xor(base, label)
                 IN IF ~InArr(c1, i) THEN Panic(c1)
                    ELSE [c1 EXCEPT !.n_infos[i].sibling = sibling] :
            w \in {IF has_child /\ keep_order
                   THEN push_sibling_walk(c, Place("child", from), base, label, Fuel(c))
                   ELSE [st |-> "ok", p |-> Place("child", from)]} })

\* the loop of pop_sibling; returns [st, p]
RECURSIVE pop_sibling_walk(_, _, _, _, _)
pop_sibling_walk(c, p, base, label, fuel) ==
    IF Deref(c, p) = label THEN [st |-> "ok", p |-> p]
    ELSE IF fuel = 0 THEN [st |-> "hang", p |-> p]
    ELSE LET i == Xor(base, Deref(c, p)) IN
         IF ~InArr(c, i) THEN [st |-> "panic", p |-> p]
         ELSE pop_sibling_walk(c, Place("sibling", i), base, label, fuel - 1)

pop_sibling(c, from, base, label) ==
    IF c.st # "ok" THEN c
    ELSE IF ~InArr(c, from) THEN Panic(c)
    ELSE The({
         IF w.st # "ok" THEN [c EXCEPT !.st = w.st]
         ELSE LET i == Xor(base, label) IN
              IF ~InArr(c, i) THEN Panic(c)
              ELSE Store(c, w.p, c.n_infos[i].sibling) :
         w \in {pop_sibling_walk(c, Place("child", from), base, label, Fuel(c))} })

\* returns [st, flag]
RECURSIVE consult_loop(_, _, _, _, _, _)
consult_loop(c, base_n, base_p, c_n, c_p, fuel) ==
    IF fuel = 0 THEN [st |-> "hang", flag |-> FALSE]
    ELSE LET i_n == Xor(base_n, c_n)
             i_p == Xor(base_p, c_p)
         IN IF ~InArr(c, i_n) \/ ~InArr(c, i_p) THEN [st |-> "panic", flag |-> FALSE]
            ELSE LET n == c.n_infos[i_n].sibling
                     p == c.n_infos[i_p].sibling
                 IN IF ~(n # 0 /\ p # 0) THEN [st |-> "ok", flag |-> p # 0]
                    ELSE consult_loop(c, base_n, base_p, n, p, fuel - 1)

consult(c, base_n, base_p, c_n, c_p) == consult_loop(c, base_n, base_p, c_n, c_p, Fuel(c))

\* the two while loops of set_child: append labels from c on while cond holds;
\* bounded = TRUE is `while c != 0 && c <= label`, FALSE is `while c != 0`.
\* returns [st, child, c]
RECURSIVE set_child_walk(_, _, _, _, _, _, _)
set_child_walk(c, base, child, cc, label, bounded, fuel) ==
    IF ~(cc # 0 /\ (bounded => cc <= label)) THEN [st |-> "ok", child |-> child, c |-> cc]
    ELSE IF fuel = 0 THEN [st |-> "hang", child |-> child, c |-> cc]
    ELSE LET i == Xor(base, cc) IN
         IF ~InArr(c, i) THEN [st |-> "panic", child |-> child, c |-> cc]
         ELSE set_child_walk(c, base, Append(child, cc), c.n_infos[i].sibling,
                             label, bounded, fuel - 1)

\* returns [st, child]
set_child(c, base, c0, label, not_terminal) ==
    IF c0 = 0 /\ ~InArr(c, Xor(base, c0)) THEN [st |-> "panic", child |-> <<>>]
    ELSE LET child1 == IF c0 = 0 THEN <<c0>> ELSE <<>>
             c1 == IF c0 = 0 THEN c.n_infos[Xor(base, c0)].sibling ELSE c0
         IN The({
            IF w1.st # "ok" THEN [st |-> w1.st, child |-> w1.child]
            ELSE LET child2 == IF not_terminal THEN Append(w1.child, label) ELSE w1.child
                 IN The({ [st |-> w2.st, child |-> w2.child] :
                          w2 \in {set_child_walk(c, base, child2, w1.c, label, FALSE,
                                                 Fuel(c))} }) :
            w1 \in {IF ordered
                    THEN set_child_walk(c, base, child1, c1, label, TRUE, Fuel(c))
                    ELSE [st |-> "ok", child |-> child1, c |-> c1]} })

(***************************************************************************)
(* find_places.  child is a 1-based sequence: child[k + 1] is the code's   *)
(* child[k].                                                               *)
(***************************************************************************)
\* `while array[base ^ child[i]].check < 0 { if i == len - 1 { return } i += 1 }`
\* returns "fit", "nofit" or "panic"
RECURSIVE find_places_fit(_, _, _, _)
find_places_fit(c, child, base, i) ==
    IF i >= Len(child) THEN "panic"
    ELSE LET t == Xor(base, child[i + 1]) IN
         IF ~InArr(c, t) THEN "panic"
         ELSE IF ~(c.array[t].check < 0) THEN "nofit"
         ELSE IF i = Len(child) - 1 THEN "fit"
         ELSE find_places_fit(c, child, base, i + 1)

\* the walk of one block's free cycle from e; returns [st, found, e]
RECURSIVE find_places_cycle(_, _, _, _, _)
find_places_cycle(c, child, idx, e, fuel) ==
    IF fuel = 0 THEN [st |-> "hang", found |-> FALSE, e |-> e]
    ELSE IF Len(child) = 0 THEN [st |-> "panic", found |-> FALSE, e |-> e]
    ELSE The({
         IF r = "panic" THEN [st |-> "panic", found |-> FALSE, e |-> e]
         ELSE IF r = "fit" THEN [st |-> "ok", found |-> TRUE, e |-> e]
         ELSE IF ~InArr(c, e) THEN [st |-> "panic", found |-> FALSE, e |-> e]
         ELSE LET e1 == -c.array[e].check IN
              IF e1 = c.blocks[idx].e_head THEN [st |-> "ok", found |-> FALSE, e |-> e1]
              ELSE find_places_cycle(c, child, idx, e1, fuel - 1) :
         r \in {find_places_fit(c, child, Xor(e, child[1]), 1)} })

\* a find_places loop that passes over a block it does not walk without
\* writing to it
RECURSIVE find_places_loop_sparing(_, _, _, _, _)
find_places_loop_sparing(c, child, idx, bz, fuel) ==
    IF c.st # "ok" THEN c
    ELSE IF fuel = 0 THEN Hang(c)
    ELSE IF ~InBlk(c, idx) THEN Panic(c)
    ELSE IF ~(c.blocks[idx].num >= Len(child) /\ Len(child) < c.blocks[idx].reject)
         THEN IF idx = bz THEN [c EXCEPT !.ret = -1]
              ELSE find_places_loop_sparing(c, child, c.blocks[idx].next, bz, fuel - 1)
    ELSE LET nc == Len(child) IN
         The({
            IF w.st # "ok" THEN [c EXCEPT !.st = w.st]
            ELSE IF w.found THEN [c EXCEPT !.blocks[idx].e_head = w.e, !.ret = w.e]
            ELSE LET c1 == [c EXCEPT !.blocks[idx].reject = nc] IN
                 IF ~InRej(c1.blocks[idx].num) THEN Panic(c1)
                 ELSE LET c2 == IF c1.blocks[idx].reject < c1.reject[c1.blocks[idx].num]
                                THEN [c1 EXCEPT !.reject[c1.blocks[idx].num] =
                                                    c1.blocks[idx].reject]
                                ELSE c1
                          idx_ == c2.blocks[idx].next
                          c3 == [c2 EXCEPT !.blocks[idx].trial = @ + 1]
                      IN The({
                         IF c4.st # "ok" THEN c4
                         ELSE IF idx = bz THEN [c4 EXCEPT !.ret = -1]
                         ELSE find_places_loop_sparing(c4, child, idx_, bz, fuel - 1) :
                         c4 \in {IF c3.blocks[idx].trial = max_trial
                                 THEN transfer_block(c3, idx, "Open", "Closed",
                                                     c3.blocks_head_closed = 0)
                                 ELSE c3} }) :
            w \in {IF c.blocks[idx].num >= nc /\ nc < c.blocks[idx].reject
                   THEN find_places_cycle(c, child, idx, c.blocks[idx].e_head, Fuel(c))
                   ELSE [st |-> "ok", found |-> FALSE, e |-> 0]} })

\* the loop over the Open list; returns the record with ret = e when a place was
\* found and ret = -1 when the loop was left without one
RECURSIVE find_places_loop(_, _, _, _, _)
find_places_loop(c, child, idx, bz, fuel) ==
    IF c.st # "ok" THEN c
    ELSE IF fuel = 0 THEN Hang(c)
    ELSE IF ~InBlk(c, idx) THEN Panic(c)
    ELSE LET nc == Len(child) IN
         The({
            IF w.st # "ok" THEN [c EXCEPT !.st = w.st]
            ELSE IF w.found THEN [c EXCEPT !.blocks[idx].e_head = w.e, !.ret = w.e]
            ELSE LET c1 == [c EXCEPT !.blocks[idx].reject = nc] IN
                 IF ~InRej(c1.blocks[idx].num) THEN Panic(c1)
                 ELSE LET c2 == IF c1.blocks[idx].reject < c1.reject[c1.blocks[idx].num]
                                THEN [c1 EXCEPT !.reject[c1.blocks[idx].num] =
                                                    c1.blocks[idx].reject]
                                ELSE c1
                          idx_ == c2.blocks[idx].next
                          c3 == [c2 EXCEPT !.blocks[idx].trial = @ + 1]
                      IN The({
                         IF c4.st # "ok" THEN c4
                         ELSE IF idx = bz THEN [c4 EXCEPT !.ret = -1]
                         ELSE find_places_loop(c4, child, idx_, bz, fuel - 1) :
                         c4 \in {IF c3.blocks[idx].trial = max_trial
                                 THEN transfer_block(c3, idx, "Open", "Closed",
                                                     c3.blocks_head_closed = 0)
                                 ELSE c3} }) :
            w \in {IF c.blocks[idx].num >= nc /\ nc < c.blocks[idx].reject
                   THEN find_places_cycle(c, child, idx, c.blocks[idx].e_head, Fuel(c))
                   ELSE [st |-> "ok", found |-> FALSE, e |-> 0]} })

find_places(c, child) ==
    IF c.st # "ok" THEN c
    ELSE LET idx == c.blocks_head_open IN
         The({
            IF c1.st # "ok" \/ c1.ret # -1 THEN c1
            ELSE The({ IF c2.st # "ok" THEN c2 ELSE [c2 EXCEPT !.ret = c2.ret * BlockSize] :
                       c2 \in {add_block(c1)} }) :
            c1 \in {IF idx # 0
                    THEN IF ~InBlk(c, idx) THEN Panic(c)
                         ELSE find_places_loop(c, child, idx, c.blocks[idx].prev, Fuel(c))
                    ELSE [c EXCEPT !.ret = -1]} })

(***************************************************************************)
(* resolve: relocation of one of two conflicting child groups.             *)
(***************************************************************************)
\* `loop { idx = array[to].base() ^ c; array[idx].check = to; c = n_infos[idx].sibling;
\*         if c == 0 { break } }`
RECURSIVE resolve_grandchildren(_, _, _, _)
resolve_grandchildren(c, to, cc, fuel) ==
    IF fuel = 0 THEN Hang(c)
    ELSE LET idx == Xor(c.array[to].base_, cc) IN
         IF ~InArr(c, idx) THEN Panic(c)
         ELSE LET c1 == [c EXCEPT !.array[idx].check = to]
                  n == c1.n_infos[idx].sibling
              IN IF n = 0 THEN c1 ELSE resolve_grandchildren(c1, to, n, fuel - 1)

\* `for i in 0..children.len()`; i is 1-based here
RECURSIVE resolve_loop(_, _, _, _, _, _, _, _, _, _)
resolve_loop(c, children, i, base, base_, from, flag, from_n, to_pn, label_n) ==
    IF c.st # "ok" THEN c
    ELSE IF i > Len(children) THEN c
    ELSE LET ch == children[i]
             to_ == Xor(base_, ch)
         IN The({
            LET to == c1.ret IN
            IF c1.st # "ok" THEN c1
            ELSE LET c2 == [c1 EXCEPT !.n_infos[to].sibling =
                                         IF i = Len(children) THEN 0 ELSE children[i + 1]]
                 IN IF flag /\ to_ = to_pn
                    THEN resolve_loop(c2, children, i + 1, base, base_, from, flag,
                                      from_n, to_pn, label_n)
                    ELSE IF ~InArr(c2, to_) THEN Panic(c2)
                    ELSE LET c3 == [c2 EXCEPT !.array[to].base_ = c2.array[to_].base_]
                             from_n1 == IF ~flag /\ to_ = from_n THEN to ELSE from_n
                         IN The({
                            resolve_loop(
                                IF ~flag /\ to_ = to_pn
                                THEN The({ IF a.st # "ok" THEN a
                                           ELSE [a EXCEPT
                                                   !.n_infos[to_].child = 0,
                                                   !.array[to_] =
                                                       Node(IF label_n # 0 THEN -1 ELSE 0,
                                                            from_n1)] :
                                           a \in {push_sibling(c4, from_n1,
                                                               Xor(to_pn, label_n),
                                                               label_n, TRUE)} })
                                ELSE push_e_node(c4, to_),
                                children, i + 1, base, base_, from, flag,
                                from_n1, to_pn, label_n) :
                            c4 \in {IF c3.array[to].base_ > 0 /\ ch # 0
                                    THEN LET cc == c3.n_infos[to_].child IN
                                         resolve_grandchildren(
                                             [c3 EXCEPT !.n_infos[to].child = cc],
                                             to, cc, Fuel(c3))
                                    ELSE c3} }) :
            c1 \in {pop_e_node(c, base, ch, from)} })

\* the children a node has in the arrays: the slots base XOR label whose check
\* names the node
children_of(c, from) ==
    { l \in 0 .. BlockSize - 1 :
        /\ InArr(c, Xor(c.array[from].base_, l))
        /\ c.array[Xor(c.array[from].base_, l)].check = from }

\* consult_miscount and root_resolved are not fields of the code: they record
\* what resolve was called with and what consult answered
consulted(c, from_n, from_p, flag) ==
    [c EXCEPT !.consult_miscount =
                  @ \/ flag # (Cardinality(children_of(c, from_n))
                                 < Cardinality(children_of(c, from_p))),
              !.root_resolved = @ \/ from_p = 0]


resolve(c, from_n, base_n, label_n) ==
    IF c.st # "ok" THEN c
    ELSE LET to_pn == Xor(base_n, label_n) IN
         IF ~InArr(c, to_pn) THEN Panic(c)
         ELSE LET from_p == c.array[to_pn].check IN
              IF ~InArr(c, from_p) \/ ~InArr(c, from_n) THEN Panic(c)
              ELSE LET base_p == c.array[from_p].base_ IN
                   The({
                   LET flag == cons.flag IN
                   IF cons.st # "ok" THEN [c EXCEPT !.st = cons.st]
                   ELSE The({
                      LET children == sc.child IN
                      IF sc.st # "ok" THEN [c EXCEPT !.st = sc.st]
                      ELSE The({
                              IF c1.st # "ok" THEN c1
                              ELSE IF Len(children) = 0 THEN Panic(c1)
                              ELSE LET base == Xor(c1.ret, children[1])
                                       from == IF flag THEN from_n ELSE from_p
                                       base_ == IF flag THEN base_n ELSE base_p
                                       c2 == IF flag /\ children[1] = label_n
                                             THEN [c1 EXCEPT !.n_infos[from].child = label_n]
                                             ELSE c1
                                       c3 == [c2 EXCEPT !.array[from].base_ = base]
                                   IN The({
                                      IF c4.st # "ok" THEN c4
                                      ELSE [c4 EXCEPT !.ret = IF flag THEN Xor(base, label_n)
                                                              ELSE to_pn] :
                                      c4 \in {resolve_loop(c3, children, 1, base, base_, from,
                                                           flag, from_n, to_pn, label_n)} }) :
                              c1 \in {IF Len(children) = 1
                                      THEN find_place(consulted(c, from_n, from_p, flag))
                                      ELSE find_places(consulted(c, from_n, from_p, flag),
                                                       children)} }) :
                      sc \in {IF flag
                              THEN set_child(c, base_n, c.n_infos[from_n].child, label_n, TRUE)
                              ELSE set_child(c, base_p, c.n_infos[from_p].child,
                                             BlockSize - 1, FALSE)} }) :
                   cons \in {consult(c, base_n, base_p, c.n_infos[from_n].child,
                                     c.n_infos[from_p].child)} })

(***************************************************************************)
(* follow, update, find, erase.  Keys are 1-based sequences of bytes.      *)
(***************************************************************************)
follow(c, from, label) ==
    IF c.st # "ok" THEN c
    ELSE IF ~InArr(c, from) THEN Panic(c)
    ELSE LET base == c.array[from].base_ IN
         IF base >= 0 /\ ~InArr(c, Xor(base, label)) THEN Panic(c)
         ELSE IF base < 0 \/ c.array[Xor(base, label)].check < 0
         THEN The({
              LET to == c1.ret
                  branch == Xor(to, label)
              IN The({ IF c2.st # "ok" THEN c2 ELSE [c2 EXCEPT !.ret = to] :
                       c2 \in {push_sibling(c1, from, branch, label, base >= 0)} }) :
              c1 \in {pop_e_node(c, base, label, from)} })
         ELSE LET to == Xor(base, label) IN
              IF c.array[to].check # from THEN resolve(c, from, base, label)
              ELSE [c EXCEPT !.ret = to]

\* `while pos < key.len() { from = follow(from, key[pos]); pos += 1 }`; pos is 1-based
RECURSIVE update_loop(_, _, _, _)
update_loop(c, key, from, pos) ==
    IF c.st # "ok" THEN c
    ELSE IF pos > Len(key) THEN [c EXCEPT !.ret = from]
    ELSE The({ update_loop(c1, key, c1.ret, pos + 1) : c1 \in {follow(c, from, key[pos])} })

\* update_ without its first statement, the check for the zero-length key
update_unguarded(c, key, value, from, pos) ==
    IF c.st # "ok" THEN c
    ELSE The({
         The({ LET to == c2.ret IN
               IF c2.st # "ok" THEN c2
               ELSE IF ~InArr(c2, to) THEN Panic(c2)
               ELSE [c2 EXCEPT !.array[to].base_ = value, !.ret = value] :
               c2 \in {follow(c1, c1.ret, 0)} }) :
         c1 \in {update_loop(c, key, from, pos + 1)} })

update_(c, key, value, from, pos) ==
    IF c.st # "ok" THEN c
    ELSE IF from = 0 /\ Len(key) = 0 THEN Panic(c)
    ELSE The({
         The({ LET to == c2.ret IN
               IF c2.st # "ok" THEN c2
               ELSE IF ~InArr(c2, to) THEN Panic(c2)
               ELSE [c2 EXCEPT !.array[to].base_ = value, !.ret = value] :
               c2 \in {follow(c1, c1.ret, 0)} }) :
         c1 \in {update_loop(c, key, from, pos + 1)} })

update(c, key, value) == update_(c, key, value, 0, 0)

\* `for (key, value) in key_values { self.update(key, *value) }`
RECURSIVE build(_, _)
build(c, key_values) ==
    IF c.st # "ok" \/ key_values = <<>> THEN c
    ELSE build(update(c, Head(key_values)[1], Head(key_values)[2]), Tail(key_values))

\* find returns [st, some, value, from]: Option<i32> and the cursor *from
RECURSIVE find_loop(_, _, _, _)
find_loop(c, key, from, pos) ==
    IF ~InArr(c, from) THEN [st |-> "panic", some |-> FALSE, value |-> 0, from |-> from]
    ELSE IF pos > Len(key)
         THEN LET b == c.array[from].base_ IN
              IF ~InArr(c, b)
              THEN [st |-> "panic", some |-> FALSE, value |-> 0, from |-> from]
              ELSE IF c.array[b].check # from
                   THEN [st |-> "ok", some |-> TRUE, value |-> CEDAR_NO_VALUE, from |-> from]
                   ELSE [st |-> "ok", some |-> TRUE, value |-> c.array[b].base_,
                         from |-> from]
    ELSE LET to == Xor(c.array[from].base_, key[pos]) IN
         IF ~InArr(c, to) THEN [st |-> "panic", some |-> FALSE, value |-> 0, from |-> from]
         ELSE IF c.array[to].check # from
              THEN [st |-> "ok", some |-> FALSE, value |-> 0, from |-> from]
              ELSE find_loop(c, key, to, pos + 1)

find(c, key, from) == find_loop(c, key, from, 1)

RECURSIVE erase_loop(_, _, _, _)
erase_loop(c, from, e, fuel) ==
    IF c.st # "ok" THEN c
    ELSE IF fuel = 0 THEN Hang(c)
    ELSE IF ~InArr(c, from) THEN Panic(c)
    ELSE LET n == c.array[from]
             i == Xor(n.base_, c.n_infos[from].child)
         IN IF ~InArr(c, i) THEN Panic(c)
            ELSE LET has_sibling == c.n_infos[i].sibling # 0
                     c1 == IF has_sibling
                           THEN pop_sibling(c, from, n.base_, AsU8(Xor(n.base_, e)))
                           ELSE c
                 IN The({
                    IF c2.st # "ok" THEN c2
                    ELSE IF has_sibling THEN c2
                    ELSE erase_loop(c2, c2.array[from].check, from, fuel - 1) :
                    c2 \in {push_e_node(c1, e)} })

erase__(c, from) ==
    IF c.st # "ok" THEN c
    ELSE IF ~InArr(c, from) THEN Panic(c)
    ELSE erase_loop(c, from, c.array[from].base_, Fuel(c))

erase_(c, key) ==
    IF c.st # "ok" THEN c
    ELSE The({
         IF f.st # "ok" THEN [c EXCEPT !.st = f.st]
         ELSE IF f.some THEN erase__(c, f.from)
         ELSE c :
         f \in {find(c, key, 0)} })

erase(c, key) == erase_(c, key)

(***************************************************************************)
(* Queries.  An Option is a record with a field `some`.                    *)
(***************************************************************************)
\* Option<(i32, usize, usize)>: [st, some, value, len, from]
exact_match_search(c, key) ==
    The({
    IF f.st # "ok"
    THEN [st |-> f.st, some |-> FALSE, value |-> 0, len |-> 0, from |-> 0]
    ELSE IF f.some /\ f.value # CEDAR_NO_VALUE
         THEN [st |-> "ok", some |-> TRUE, value |-> f.value, len |-> Len(key),
               from |-> f.from]
         ELSE [st |-> "ok", some |-> FALSE, value |-> 0, len |-> 0, from |-> 0] :
    f \in {find(c, key, 0)} })

\* PrefixIter::next run to exhaustion; i is the 0-based self.i.
\* returns [st, out]: out is the sequence of the items <<value, i>> yielded
RECURSIVE PrefixIter_next(_, _, _, _, _)
PrefixIter_next(c, key, from, i, out) ==
    IF ~(i < Len(key)) THEN [st |-> "ok", out |-> out]
    ELSE The({
         IF f.st # "ok" THEN [st |-> f.st, out |-> out]
         ELSE IF ~f.some THEN [st |-> "ok", out |-> out]
         ELSE IF f.value = CEDAR_NO_VALUE
              THEN PrefixIter_next(c, key, f.from, i + 1, out)
              ELSE PrefixIter_next(c, key, f.from, i + 1, Append(out, <<f.value, i>>)) :
         f \in {find(c, <<key[i + 1]>>, from)} })

common_prefix_search(c, key) == PrefixIter_next(c, key, 0, 0, <<>>)

\* (Option<i32>, usize, usize) as returned by begin and next: [st, some, value, from, p]
Cursor(st, some, value, from, p) ==
    [st |-> st, some |-> some, value |-> value, from |-> from, p |-> p]

\* `while c != 0 { from = array[from].base() ^ c; c = n_infos[from].child; p += 1 }`
RECURSIVE begin_walk(_, _, _, _, _)
begin_walk(c, from, cc, p, fuel) ==
    IF cc = 0 THEN Cursor("ok", FALSE, 0, from, p)
    ELSE IF fuel = 0 THEN Cursor("hang", FALSE, 0, from, p)
    ELSE IF ~InArr(c, from) \/ ~InArr(c, Xor(c.array[from].base_, cc))
         THEN Cursor("panic", FALSE, 0, from, p)
    ELSE LET f == Xor(c.array[from].base_, cc) IN
         begin_walk(c, f, c.n_infos[f].child, p + 1, fuel - 1)

begin(c, from, p) ==
    IF ~InArr(c, from) THEN Cursor("panic", FALSE, 0, from, p)
    ELSE LET base == c.array[from].base_
             c0 == c.n_infos[from].child
         IN IF from = 0 /\ ~InArr(c, Xor(base, c0)) THEN Cursor("panic", FALSE, 0, from, p)
            ELSE LET c1 == IF from = 0 THEN c.n_infos[Xor(base, c0)].sibling ELSE c0 IN
                 IF from = 0 /\ c1 = 0 THEN Cursor("ok", FALSE, 0, from, p)
                 ELSE The({
                      IF w.st # "ok" THEN w
                      ELSE IF ~InArr(c, w.from) \/ ~InArr(c, c.array[w.from].base_)
                           THEN Cursor("panic", FALSE, 0, w.from, w.p)
                      ELSE Cursor("ok", TRUE, c.array[c.array[w.from].base_].base_,
                                  w.from, w.p) :
                      w \in {begin_walk(c, from, c1, p, Fuel(c))} })

\* `while c == 0 && from != root { c = n_infos[from].sibling; from = array[from].check;
\*                                 p -= 1 }`; returns [st, c, from, p].  `p -= 1` at
\* p = 0 is an arithmetic overflow, a panic of the checked build.
RECURSIVE next_walk(_, _, _, _, _, _)
next_walk(c, from, cc, p, root, fuel) ==
    IF ~(cc = 0 /\ from # root) THEN [st |-> "ok", c |-> cc, from |-> from, p |-> p]
    ELSE IF fuel = 0 THEN [st |-> "hang", c |-> cc, from |-> from, p |-> p]
    ELSE IF ~InArr(c, from) \/ p = 0 THEN [st |-> "panic", c |-> cc, from |-> from, p |-> p]
    ELSE next_walk(c, c.array[from].check, c.n_infos[from].sibling, p - 1, root, fuel - 1)

next(c, from, p, root) ==
    IF ~InArr(c, from) \/ ~InArr(c, c.array[from].base_)
    THEN Cursor("panic", FALSE, 0, from, p)
    ELSE The({
         IF w.st # "ok" THEN Cursor(w.st, FALSE, 0, w.from, w.p)
         ELSE IF w.c # 0
              THEN IF ~InArr(c, w.from) THEN Cursor("panic", FALSE, 0, w.from, w.p)
                   ELSE begin(c, Xor(c.array[w.from].base_, w.c), w.p + 1)
              ELSE Cursor("ok", FALSE, 0, w.from, w.p) :
         w \in {next_walk(c, from, c.n_infos[c.array[from].base_].sibling, p, root,
                          Fuel(c))} })

\* struct PrefixPredictIter without its references cedar and key; value is the
\* Option<i32> as a record with the fields some and value
PrefixPredictIter(from, p, root, value) ==
    [from |-> from, p |-> p, root |-> root, value |-> value]

\* Option<(i32, usize)> as returned by PrefixPredictIter::next, with the iterator
\* after the call: [st, some, item, at, it]; at is the cursor self.from at which the
\* item was read
Yield(st, some, item, at, it) ==
    [st |-> st, some |-> some, item |-> item, at |-> at, it |-> it]

next_until_none(c, it) ==
    IF ~it.value.some THEN Yield("ok", FALSE, <<>>, 0, it)
    ELSE The({ IF n.st # "ok" THEN Yield(n.st, FALSE, <<>>, 0, it)
               ELSE Yield("ok", TRUE, <<it.value.value, it.p>>, it.from,
                          PrefixPredictIter(n.from, n.p, it.root,
                                            [some |-> n.some, value |-> n.value])) :
               n \in {next(c, it.from, it.p, it.root)} })

PrefixPredictIter_next(c, key, it) ==
    IF it.from = 0 /\ it.p = 0
    THEN The({
         IF f.st # "ok" THEN Yield(f.st, FALSE, <<>>, 0, it)
         ELSE IF ~f.some THEN Yield("ok", FALSE, <<>>, 0, [it EXCEPT !.from = f.from])
         ELSE The({ IF b.st # "ok" THEN Yield(b.st, FALSE, <<>>, 0, it)
                    ELSE next_until_none(
                             c, PrefixPredictIter(b.from, b.p, f.from,
                                                  [some |-> b.some, value |-> b.value])) :
                    b \in {begin(c, f.from, it.p)} }) :
         f \in {find(c, key, it.from)} })
    ELSE next_until_none(c, it)

\* `.map(Some).collect()`: next is called until it returns None.  returns
\* [st, out, at]: out is the sequence of the items <<value, p>>, at the sequence of
\* the cursors at which they were read
RECURSIVE PrefixPredictIter_collect(_, _, _, _, _, _)
PrefixPredictIter_collect(c, key, it, out, at, fuel) ==
    IF fuel = 0 THEN [st |-> "hang", out |-> out, at |-> at]
    ELSE The({ IF y.st # "ok" \/ ~y.some THEN [st |-> y.st, out |-> out, at |-> at]
               ELSE PrefixPredictIter_collect(c, key, y.it, Append(out, y.item),
                                              Append(at, y.at), fuel - 1) :
               y \in {PrefixPredictIter_next(c, key, it)} })

\* a run that ends yields each leaf once, so fewer items than there are nodes
common_prefix_predict(c, key) ==
    PrefixPredictIter_collect(
        c, key, PrefixPredictIter(0, 0, 0, [some |-> FALSE, value |-> 0]), <<>>, <<>>,
        c.capacity)

\* ScanIter::next run to exhaustion; i and base are 0-based.
\* returns [st, out]: out is the sequence of the items <<value, start, end>> yielded
RECURSIVE ScanIter_next(_, _, _, _, _, _)
ScanIter_next(c, text, from, i, base, out) ==
    IF ~(base < Len(text)) THEN [st |-> "ok", out |-> out]
    ELSE IF ~(i < Len(text) - base) THEN ScanIter_next(c, text, 0, 0, base + 1, out)
    ELSE The({
         IF f.st # "ok" THEN [st |-> f.st, out |-> out]
         ELSE IF ~f.some THEN ScanIter_next(c, text, 0, 0, base + 1, out)
         ELSE IF f.value = CEDAR_NO_VALUE
              THEN ScanIter_next(c, text, f.from, i + 1, base, out)
              ELSE ScanIter_next(c, text, f.from, i + 1, base,
                                 Append(out, <<f.value, base, base + i + 1>>)) :
         f \in {find(c, <<text[base + i + 1]>>, from)} })

common_prefix_scan(c, text) == ScanIter_next(c, text, 0, 0, 0, <<>>)

(***************************************************************************)
(* The state machine: one trie object used through its public interface.   *)
(*   status     : "ok" while the object is usable; "panic" once a call has *)
(*                panicked, "hang" once a call has entered an endless loop *)
(*                (the fields then hold what the call had written so far). *)
(*   dict       : history variable, for every key the value of its most    *)
(*                recent completed call: <<v>> after update(k, v), <<>>    *)
(*                after erase(k) or when k was never inserted.             *)
(*   last       : history variable, the last call made.                    *)
(*   empty_used : history variable, some call so far was given the         *)
(*                zero-length key.                                         *)
(*   nops       : the number of keys passed to update, erase and build.    *)
(***************************************************************************)
VARIABLES array, n_infos, blocks, reject, blocks_head_full, blocks_head_closed,
          blocks_head_open, capacity, size, status, dict, last, empty_used, nops

fields == <<array, n_infos, blocks, reject, blocks_head_full, blocks_head_closed,
            blocks_head_open, capacity, size>>

vars == <<array, n_infos, blocks, reject, blocks_head_full, blocks_head_closed,
          blocks_head_open, capacity, size, status, dict, last, empty_used, nops>>

Bytes == 0 .. MaxByte

RECURSIVE KeysOver(_, _)
KeysOver(B, n) ==
    IF n = 0 THEN {<<>>}
    ELSE {Append(k, b) : k \in KeysOver(B, n - 1), b \in B}

\* every byte string of at most MaxKeyLen bytes
Keys == UNION {KeysOver(Bytes, n) : n \in 0 .. MaxKeyLen}

\* the non-empty keys without a NUL byte
TextKeys == UNION {KeysOver(Bytes \ {0}, n) : n \in 1 .. MaxKeyLen}

\* the keys of three bytes with a NUL byte inside
NulKeys == {<<a, 0, b>> : a \in Bytes \ {0}, b \in Bytes \ {0}}

Values == CEDAR_NO_VALUE .. MaxValue

\* the arguments of build: at most MaxBuild pairs of a key of at most one byte and
\* a value that is not the sentinel
BuildPairs == {<<k, v>> : k \in KeysOver(Bytes, 0) \cup KeysOver(Bytes, 1), v \in 0 .. MaxValue}

RECURSIVE SeqsOver(_, _)
SeqsOver(S, n) ==
    IF n = 0 THEN {<<>>}
    ELSE {Append(q, x) : q \in SeqsOver(S, n - 1), x \in S}

BuildInputs == UNION {SeqsOver(BuildPairs, n) : n \in 1 .. MaxBuild}

\* the trie object of the current state
Cedar ==
    [array |-> array, n_infos |-> n_infos, blocks |-> blocks, reject |-> reject,
     blocks_head_full |-> blocks_head_full, blocks_head_closed |-> blocks_head_closed,
     blocks_head_open |-> blocks_head_open, capacity |-> capacity, size |-> size,
     st |-> "ok", ret |-> 0, in_use_taken |-> FALSE, stray_transfer |-> FALSE,
     consult_miscount |-> FALSE,
     root_resolved |-> FALSE]

\* the trie object of the next state is c
Becomes(c) ==
    /\ array' = c.array
    /\ n_infos' = c.n_infos
    /\ blocks' = c.blocks
    /\ reject' = c.reject
    /\ blocks_head_full' = c.blocks_head_full
    /\ blocks_head_closed' = c.blocks_head_closed
    /\ blocks_head_open' = c.blocks_head_open
    /\ capacity' = c.capacity
    /\ size' = c.size
    /\ status' = c.st

Call(op, key, value, pairs) == [op |-> op, key |-> key, value |-> value, pairs |-> pairs]

Init ==
    /\ array = new.array
    /\ n_infos = new.n_infos
    /\ blocks = new.blocks
    /\ reject = new.reject
    /\ blocks_head_full = new.blocks_head_full
    /\ blocks_head_closed = new.blocks_head_closed
    /\ blocks_head_open = new.blocks_head_open
    /\ capacity = new.capacity
    /\ size = new.size
    /\ status = new.st
    /\ dict = [k \in Keys \cup NulKeys |-> <<>>]
    /\ last = Call("new", <<>>, 0, <<>>)
    /\ empty_used = FALSE
    /\ nops = 0

\* dict after the pairs of a build call that returned
RECURSIVE RecordAll(_, _)
RecordAll(d, key_values) ==
    IF key_values = <<>> THEN d
    ELSE RecordAll([d EXCEPT ![Head(key_values)[1]] = <<Head(key_values)[2]>>],
                   Tail(key_values))

\* pub fn update(&mut self, key: &str, value: i32)
Update(key, value) ==
    /\ status = "ok"
    /\ nops < MaxOps
    /\ \E c \in {update(Cedar, key, value)} :
       /\ Becomes(c)
       /\ dict' = IF c.st = "ok" THEN [dict EXCEPT ![key] = <<value>>] ELSE dict
    /\ last' = Call("update", key, value, <<>>)
    /\ empty_used' = (empty_used \/ key = <<>>)
    /\ nops' = nops + 1

\* pub fn erase(&mut self, key: &str)
\* an erase with compaction: the key is erased and the trie is built anew from
\* the keys it still stores
RECURSIVE rebuild(_, _, _)
rebuild(c, old, keys) ==
    IF keys = {} THEN c
    ELSE LET k == CHOOSE x \in keys : TRUE
         IN rebuild(update(c, k, exact_match_search(old, k).value), old, keys \ {k})

erase_compacting(c, key) ==
    The({
    IF c1.st # "ok" THEN c1
    ELSE rebuild(new, c1, {k \in Keys : LET r == exact_match_search(c1, k)
                                        IN r.st = "ok" /\ r.some}) :
    c1 \in {erase(c, key)} })

EraseCompacting(key) ==
    /\ status = "ok"
    /\ nops < MaxOps
    /\ \E c \in {erase_compacting(Cedar, key)} :
       /\ Becomes(c)
       /\ dict' = IF c.st = "ok" THEN [dict EXCEPT ![key] = <<>>] ELSE dict
    /\ last' = Call("erase", key, 0, <<>>)
    /\ empty_used' = (empty_used \/ key = <<>>)
    /\ nops' = nops + 1

Erase(key) ==
    /\ status = "ok"
    /\ nops < MaxOps
    /\ \E c \in {erase(Cedar, key)} :
       /\ Becomes(c)
       /\ dict' = IF c.st = "ok" THEN [dict EXCEPT ![key] = <<>>] ELSE dict
    /\ last' = Call("erase", key, 0, <<>>)
    /\ empty_used' = (empty_used \/ key = <<>>)
    /\ nops' = nops + 1

\* pub fn build(&mut self, key_values: &[(&str, i32)])
Build(key_values) ==
    /\ status = "ok"
    /\ nops + Len(key_values) <= MaxOps
    /\ \E c \in {build(Cedar, key_values)} :
       /\ Becomes(c)
       /\ dict' = IF c.st = "ok" THEN RecordAll(dict, key_values) ELSE dict
    /\ last' = Call("build", <<>>, 0, key_values)
    /\ empty_used' = (empty_used \/ \E i \in 1 .. Len(key_values) : key_values[i][1] = <<>>)
    /\ nops' = nops + Len(key_values)

Next ==
    \/ \E key \in Keys, value \in Values : Update(key, value)
    \/ \E key \in Keys : Erase(key)
    \/ \E key_values \in BuildInputs : Build(key_values)

Spec == Init /\ [][Next]_vars

(***************************************************************************)
(* The same object given keys without a NUL byte (the empty key included). *)
(***************************************************************************)
NoNulKeys == UNION {KeysOver(Bytes \ {0}, n) : n \in 0 .. MaxKeyLen}

NoNulPairs ==
    {<<k, v>> : k \in KeysOver(Bytes \ {0}, 0) \cup KeysOver(Bytes \ {0}, 1),
                v \in 0 .. MaxValue}

NoNulBuildInputs == UNION {SeqsOver(NoNulPairs, n) : n \in 1 .. MaxBuild}

NextNoNul ==
    \/ \E key \in NoNulKeys, value \in Values : Update(key, value)
    \/ \E key \in NoNulKeys : Erase(key)
    \/ \E key_values \in NoNulBuildInputs : Build(key_values)

SpecNoNul == Init /\ [][NextNoNul]_vars

(***************************************************************************)
(* The same object used the way the tests of lib.rs use it: the keys are   *)
(* non-empty and have no NUL byte, and erase is given keys that were       *)
(* inserted and not erased since.                                          *)
(***************************************************************************)
TextPairs == {<<k, v>> : k \in KeysOver(Bytes \ {0}, 1), v \in 0 .. MaxValue}

TextBuildInputs == UNION {SeqsOver(TextPairs, n) : n \in 1 .. MaxBuild}

NextText ==
    \/ \E key \in TextKeys, value \in Values : Update(key, value)
    \/ \E key \in TextKeys : dict[key] # <<>> /\ Erase(key)
    \/ \E key_values \in TextBuildInputs : Build(key_values)

SpecText == Init /\ [][NextText]_vars

(***************************************************************************)
(* The same object after update of each one-byte key from <<1>> up to      *)
(* <<n>>, in increasing order: the root has a child for each of these      *)
(* bytes.  With n = BlockSize - 1 every node of block 0 is in use; with    *)
(* n = BlockSize - 2 block 1 holds the values and has two free nodes.      *)
(***************************************************************************)
RECURSIVE InsertBytes(_, _, _)
InsertBytes(c, b, n) ==
    IF b > n THEN c
    ELSE InsertBytes(update(c, <<b>>, 0), b + 1, n)

InitFilled(n) ==
    \E c \in {InsertBytes(new, 1, n)} :
        /\ array = c.array
        /\ n_infos = c.n_infos
        /\ blocks = c.blocks
        /\ reject = c.reject
        /\ blocks_head_full = c.blocks_head_full
        /\ blocks_head_closed = c.blocks_head_closed
        /\ blocks_head_open = c.blocks_head_open
        /\ capacity = c.capacity
        /\ size = c.size
        /\ status = c.st
        /\ dict = [k \in Keys \cup NulKeys |->
                     IF Len(k) = 1 /\ k[1] \in 1 .. n THEN <<0>> ELSE <<>>]
        /\ last = Call("update", <<n>>, 0, <<>>)
        /\ empty_used = FALSE
        /\ nops = 0

\* used the way the tests use it, from the trie with every byte under the root
SpecDense == InitFilled(BlockSize - 1) /\ [][NextText]_vars

\* given any keys, from the trie with every byte but one under the root
SpecFilled == InitFilled(BlockSize - 2) /\ [][Next]_vars

(***************************************************************************)
(* The same use with keys that may hold a NUL byte between two other       *)
(* bytes.                                                                  *)
(***************************************************************************)
NextNulInside ==
    \/ \E key \in TextKeys \cup NulKeys, value \in Values : Update(key, value)
    \/ \E key \in TextKeys \cup NulKeys : dict[key] # <<>> /\ Erase(key)

SpecNulInside == Init /\ [][NextNulInside]_vars

(***************************************************************************)
(* The same object after a run of updates with keys that contain NUL       *)
(* bytes, which leaves a block in the Full list with num = -1 and          *)
(* trial = max_trial.                                                      *)
(***************************************************************************)
WornUpdates ==
    <<
       <<<<1>>, 0>>, <<<<2>>, 0>>, <<<<3>>, 0>>,
       <<<<4>>, 0>>, <<<<0, 1, 1>>, 1>>, <<<<1, 0>>, 1>>,
       <<<<1, 1, 0>>, 1>>, <<<<4, 4, 1>>, 1>>, <<<<2, 0, 2>>, 1>>,
       <<<<1, 4, 1>>, 1>>, <<<<0, 1>>, 0>>
    >>

\* the value of the last pair of key_values with key k, <<>> if there is none
RECURSIVE LastValue(_, _)
LastValue(key_values, k) ==
    IF key_values = <<>> THEN <<>>
    ELSE LET p == key_values[Len(key_values)]
         IN IF p[1] = k THEN <<p[2]>>
            ELSE LastValue(SubSeq(key_values, 1, Len(key_values) - 1), k)

InitWorn ==
    \E c \in {build(new, WornUpdates)} :
        /\ array = c.array
        /\ n_infos = c.n_infos
        /\ blocks = c.blocks
        /\ reject = c.reject
        /\ blocks_head_full = c.blocks_head_full
        /\ blocks_head_closed = c.blocks_head_closed
        /\ blocks_head_open = c.blocks_head_open
        /\ capacity = c.capacity
        /\ size = c.size
        /\ status = c.st
        /\ dict = [k \in Keys \cup NulKeys |-> LastValue(WornUpdates, k)]
        /\ last = Call("build", <<>>, 0, WornUpdates)
        /\ empty_used = FALSE
        /\ nops = MaxOps - 2

\* two more calls, with any input, on the worn trie
SpecWorn == InitWorn /\ [][Next]_vars

(***************************************************************************)
(* The same object used the way the tests use it, after seven updates     *)
(* with keys of up to three bytes.                                         *)
(***************************************************************************)
UsedUpdates ==
    <<
       <<<<2, 2, 1>>, 0>>, <<<<2, 1>>, 0>>, <<<<1, 2>>, 0>>,
       <<<<1, 2, 1>>, 0>>, <<<<1>>, 0>>, <<<<2, 2>>, 0>>,
       <<<<2, 1, 2>>, 0>>
    >>

InitUsed ==
    \E c \in {build(new, UsedUpdates)} :
        /\ array = c.array
        /\ n_infos = c.n_infos
        /\ blocks = c.blocks
        /\ reject = c.reject
        /\ blocks_head_full = c.blocks_head_full
        /\ blocks_head_closed = c.blocks_head_closed
        /\ blocks_head_open = c.blocks_head_open
        /\ capacity = c.capacity
        /\ size = c.size
        /\ status = c.st
        /\ dict = [k \in Keys \cup NulKeys |-> LastValue(UsedUpdates, k)]
        /\ last = Call("build", <<>>, 0, UsedUpdates)
        /\ empty_used = FALSE
        /\ nops = 0

SpecUsed == InitUsed /\ [][NextText]_vars

\* the trie with every byte under the root after two of those keys were erased
\* again and two longer keys were stored in between
Thinned ==
    erase(update(update(erase(InsertBytes(new, 1, BlockSize - 1), <<6>>),
                        <<1, 3>>, 0),
                 <<3, 3, 2>>, 0),
          <<3>>)

InitThinned ==
    \E c \in {Thinned} :
        /\ array = c.array
        /\ n_infos = c.n_infos
        /\ blocks = c.blocks
        /\ reject = c.reject
        /\ blocks_head_full = c.blocks_head_full
        /\ blocks_head_closed = c.blocks_head_closed
        /\ blocks_head_open = c.blocks_head_open
        /\ capacity = c.capacity
        /\ size = c.size
        /\ status = c.st
        /\ dict = [k \in Keys \cup NulKeys |->
                     IF k \in {<<1>>, <<2>>} THEN <<0>> ELSE <<>>]
        /\ last = Call("erase", <<3>>, 0, <<>>)
        /\ empty_used = FALSE
        /\ nops = 0

SpecThinned == InitThinned /\ [][NextText]_vars

(***************************************************************************)
(* What a caller observes.                                                 *)
(***************************************************************************)
\* the outcome of exact_match_search(key) on the object c: <<"None">>,
\* <<"Some", value, key_len>>, or <<"panic">> / <<"hang">> when the call does not return
AnswerOf(c, key) ==
    LET r == exact_match_search(c, key) IN
    IF r.st # "ok" THEN <<r.st>>
    ELSE IF r.some THEN <<"Some", r.value, r.len>>
    ELSE <<"None">>

\* exact_match_search(key) before and after the step
Answer(key) == AnswerOf(Cedar, key)

After(key) == AnswerOf(Cedar', key)

\* what exact_match_search(key) has to answer according to the calls made so far
Expected(key) ==
    IF dict[key] = <<>> \/ dict[key] = <<CEDAR_NO_VALUE>> THEN <<"None">>
    ELSE <<"Some", dict[key][1], Len(key)>>

\* the first n bytes of key
Prefix(key, n) == SubSeq(key, 1, n)

\* the numbers of the set S in increasing order
RECURSIVE Ascending(_)
Ascending(S) ==
    IF S = {} THEN <<>>
    ELSE LET m == CHOOSE x \in S : \A y \in S : y <= x IN
         Append(Ascending(S \ {m}), m)

\* the key k is stored with a value according to the calls made so far
InDict(k) == Expected(k) # <<"None">>

\* exact_match_search finds the key k in the current trie
InTrie(k) == Answer(k)[1] = "Some"

\* the lengths of the prefixes of key that are stored, in increasing order
DictLens(key) == Ascending({n \in 1 .. Len(key) : InDict(Prefix(key, n))})

TrieLens(key) == Ascending({n \in 1 .. Len(key) : InTrie(Prefix(key, n))})

\* the first and the second components of the pairs common_prefix_search returned
Firsts(out) == [i \in 1 .. Len(out) |-> out[i][1]]

Seconds(out) == [i \in 1 .. Len(out) |-> out[i][2]]

(***************************************************************************)
(* C1: after any sequence of update and erase calls with non-empty keys,   *)
(* every key k whose most recent call is update(k, v) with v # -1 is       *)
(* answered by exact_match_search(k) with the value v and the key length   *)
(* Len(k).                                                                 *)
(***************************************************************************)
RoundTrip ==
    (status = "ok" /\ ~empty_used) =>
        \A k \in Keys :
            (dict[k] # <<>> /\ dict[k] # <<CEDAR_NO_VALUE>>) =>
                Answer(k) = <<"Some", dict[k][1], Len(k)>>

(***************************************************************************)
(* C2: after any sequence of update and erase calls, exact_match_search(k) *)
(* is None for every key k that was never inserted or whose most recent    *)
(* call is erase(k); the empty key, the proper prefixes and the extensions *)
(* of stored keys are among the keys k.                                    *)
(***************************************************************************)
AbsentKeys ==
    status = "ok" => \A k \in Keys : dict[k] = <<>> => Answer(k) = <<"None">>

(***************************************************************************)
(* C3: an erase(k) of a key k that exact_match_search finds returns and   *)
(* makes k absent, and every other key that was found before the call is   *)
(* found after it with the same value.                                     *)
(***************************************************************************)
EraseStored ==
    [][(last'.op = "erase" /\ InTrie(last'.key)) =>
          /\ status' = "ok"
          /\ After(last'.key) = <<"None">>
          /\ \A k \in Keys \ {last'.key} : InTrie(k) => After(k) = Answer(k)]_vars

(***************************************************************************)
(* C4: erase(k) of a key k that exact_match_search does not find (its path *)
(* is missing, it is a proper prefix of a stored key, or it is the empty   *)
(* key) returns and leaves every field of the trie, and so the answer for  *)
(* every key, unchanged.                                                   *)
(***************************************************************************)
EraseAbsentNoOp ==
    [][(last'.op = "erase" /\ Answer(last'.key) = <<"None">>) =>
          /\ status' = "ok"
          /\ fields' = fields
          /\ \A k \in Keys : After(k) = Answer(k)]_vars

(***************************************************************************)
(* C5: update with the zero-length key fails, and it leaves every field of *)
(* the trie (nodes, sibling info, blocks, block lists, capacity, size)     *)
(* and the answer for every key unchanged.                                 *)
(***************************************************************************)
UpdateEmptyKeyFails ==
    [][(last'.op = "update" /\ last'.key = <<>>) =>
          /\ status' = "panic"
          /\ fields' = fields
          /\ \A k \in Keys : After(k) = Answer(k)]_vars

\* C5: an update with the zero-length key has just failed on a trie that stores a
\* key
UpdateEmptyKeyFailed ==
    /\ last.op = "update"
    /\ last.key = <<>>
    /\ status = "panic"
    /\ \E k \in Keys : InTrie(k)

(***************************************************************************)
(* C6: a build whose pairs contain the empty key, at any position, fails   *)
(* and leaves the answer for every key as it was before the call.          *)
(***************************************************************************)
BuildEmptyKeyAtomic ==
    [][(/\ last'.op = "build"
        /\ \E i \in 1 .. Len(last'.pairs) : last'.pairs[i][1] = <<>>) =>
          /\ status' = "panic"
          /\ \A k \in Keys : After(k) = Answer(k)]_vars

(***************************************************************************)
(* C7: last writer wins.  After update(k, v2) has returned on a trie in    *)
(* which exact_match_search finds k, exact_match_search(k) returns v2; and *)
(* after a build that has returned, a key given twice in its pairs has the *)
(* value of its last pair.                                                 *)
(***************************************************************************)
LastWriterWins ==
    [][/\ (last'.op = "update" /\ status' = "ok" /\ InTrie(last'.key)) =>
              After(last'.key) = <<"Some", last'.value, Len(last'.key)>>
       /\ (last'.op = "build" /\ status' = "ok") =>
              \A i, j \in 1 .. Len(last'.pairs) :
                  (/\ i < j
                   /\ last'.pairs[i][1] = last'.pairs[j][1]
                   /\ \A n \in (j + 1) .. Len(last'.pairs) :
                          last'.pairs[n][1] # last'.pairs[j][1]) =>
                      After(last'.pairs[j][1]) =
                          <<"Some", last'.pairs[j][2], Len(last'.pairs[j][1])>>]_vars

(***************************************************************************)
(* C8: an update(k, v) with a non-empty key, once it has returned, has     *)
(* changed the answer of exact_match_search for no key other than k: the   *)
(* keys found before have their value, the keys absent before are absent.  *)
(***************************************************************************)
UpdateFrame ==
    [][(last'.op = "update" /\ last'.key # <<>> /\ status' = "ok") =>
          \A k \in Keys \ {last'.key} :
              Answer(k) \in {<<"None">>} \cup {<<"Some", v, Len(k)>> : v \in Values} =>
                  After(k) = Answer(k)]_vars

(***************************************************************************)
(* C9: common_prefix_search(key) returns one entry for each prefix of key  *)
(* that is stored with a value other than -1, by the calls made so far,    *)
(* and no other entry, in the order of increasing prefix length.           *)
(***************************************************************************)
PrefixSearchExact ==
    status = "ok" =>
        \A key \in Keys :
            LET r == common_prefix_search(Cedar, key)
                lens == DictLens(key)
            IN /\ r.st = "ok"
               /\ Firsts(r.out) = [i \in 1 .. Len(lens) |-> dict[Prefix(key, lens[i])][1]]

(***************************************************************************)
(* C10: the second component of every pair that common_prefix_search(key)  *)
(* returns is the length in bytes of the stored key that matched: the      *)
(* second components are the lengths of the prefixes of key that           *)
(* exact_match_search finds, in increasing order.                          *)
(***************************************************************************)
MatchLenIsKeyLength ==
    status = "ok" =>
        \A key \in Keys :
            LET r == common_prefix_search(Cedar, key) IN
            r.st = "ok" => Seconds(r.out) = TrieLens(key)

(***************************************************************************)
(* What holds of the same calls under SpecText (keys without a NUL byte,   *)
(* erase of inserted keys only), for the queries without a NUL byte.       *)
(***************************************************************************)
\* C1, C2, C3, C7, C8 under SpecText: no call fails, and exact_match_search answers
\* every key without a NUL byte, and the empty key, as the calls made so far say
TextLookupAgrees ==
    /\ status = "ok"
    /\ \A k \in TextKeys \cup {<<>>} : Answer(k) = Expected(k)

\* C9, C10 under SpecText: common_prefix_search of a key without a NUL byte returns
\* the values of its stored prefixes in the order of their lengths, and each
\* second component is the length of the prefix less one
TextPrefixSearchAgrees ==
    \A key \in TextKeys \cup {<<>>} :
        LET r == common_prefix_search(Cedar, key)
            lens == DictLens(key)
        IN /\ r.st = "ok"
           /\ r.out = [i \in 1 .. Len(lens) |->
                          <<dict[Prefix(key, lens[i])][1], lens[i] - 1>>]

(***************************************************************************)
(* Observation of the enumerations.                                        *)
(***************************************************************************)
\* k begins with key
StartsWith(k, key) == Len(k) >= Len(key) /\ SubSeq(k, 1, Len(key)) = key

\* a is before b in lexicographic byte order (a key before every key that extends it)
LexLess(a, b) ==
    \/ Len(a) < Len(b) /\ SubSeq(b, 1, Len(a)) = a
    \/ \E i \in 1 .. Len(a) :
          /\ i <= Len(b)
          /\ SubSeq(a, 1, i - 1) = SubSeq(b, 1, i - 1)
          /\ a[i] < b[i]

\* the keys of the set S in lexicographic order
RECURSIVE LexSorted(_)
LexSorted(S) ==
    IF S = {} THEN <<>>
    ELSE LET m == CHOOSE x \in S : \A y \in S \ {x} : LexLess(x, y) IN
         <<m>> \o LexSorted(S \ {m})

\* the keys that begin with key and are stored with a value other than -1 by the
\* calls made so far
DictExtensions(key) == {k \in Keys : InDict(k) /\ StartsWith(k, key)}

\* the keys that begin with key and whose most recent call is an update
DictWritten(key) == {k \in Keys : dict[k] # <<>> /\ StartsWith(k, key)}

Count(seq, v) == Cardinality({i \in 1 .. Len(seq) : seq[i] = v})

(***************************************************************************)
(* C11: common_prefix_predict(key) returns, and the values it returns are  *)
(* the values of the stored keys that begin with key, one entry for each   *)
(* such key and no other entry (so the empty list when there is none, and  *)
(* one entry for every stored key when key is empty).                      *)
(***************************************************************************)
PredictExact ==
    status = "ok" =>
        \A key \in Keys :
            LET r == common_prefix_predict(Cedar, key)
                ext == DictExtensions(key)
            IN /\ r.st = "ok"
               /\ Len(r.out) = Cardinality(ext)
               /\ \A v \in Values :
                     Count(Firsts(r.out), v) = Cardinality({k \in ext : dict[k][1] = v})

\* C11 under SpecText for the keys other than the empty one: common_prefix_predict
\* returns one item for every key that begins with key and was written last by an
\* update, in lexicographic order of these keys; the item is the value written and
\* the number of bytes of the stored key after key
TextPredictAgrees ==
    \A key \in TextKeys :
        LET r == common_prefix_predict(Cedar, key)
            ext == LexSorted(DictWritten(key))
        IN /\ r.st = "ok"
           /\ r.out = [i \in 1 .. Len(ext) |-> <<dict[ext[i]][1], Len(ext[i]) - Len(key)>>]

\* C11 under SpecText for the empty key: common_prefix_predict("") returns the empty
\* list while no key is written, and never returns otherwise
TextPredictEmptyKey ==
    LET r == common_prefix_predict(Cedar, <<>>) IN
    IF DictWritten(<<>>) = {} THEN r.st = "ok" /\ r.out = <<>> ELSE r.st = "hang"

\* the key of node n: the labels of the edges from the root to n, each label being
\* array[parent].base XOR child; <<-1>> when n is not reached from the root
RECURSIVE KeyOfWalk(_, _, _, _)
KeyOfWalk(c, n, acc, fuel) ==
    IF n = 0 THEN acc
    ELSE IF fuel = 0 \/ ~InArr(c, n) THEN <<-1>>
    ELSE IF ~InArr(c, c.array[n].check) THEN <<-1>>
    ELSE LET parent == c.array[n].check
             label == Xor(c.array[parent].base_, n)
         IN IF label < 0 \/ label >= BlockSize THEN <<-1>>
            ELSE KeyOfWalk(c, parent, <<label>> \o acc, fuel - 1)

KeyOf(c, n) == KeyOfWalk(c, n, <<>>, c.capacity)

(***************************************************************************)
(* C12: the values that common_prefix_predict(key) returns are in the      *)
(* lexicographic byte order of their keys: the key of each entry, read     *)
(* from the root to the node of the entry, is before the key of the next   *)
(* entry (a key before every longer key that extends it).                  *)
(***************************************************************************)
PredictOrdered ==
    status = "ok" =>
        \A key \in Keys :
            LET r == common_prefix_predict(Cedar, key) IN
            r.st = "ok" =>
                \A i \in 1 .. Len(r.at) - 1 :
                    LexLess(KeyOf(Cedar, r.at[i]), KeyOf(Cedar, r.at[i + 1]))

\* three keys are stored, the last call inserted the second of them in
\* lexicographic order, and common_prefix_predict of their common prefix returns
\* the three entries with the key inserted last in the middle
PredictOrderedAfterLateInsert ==
    /\ status = "ok"
    /\ last.op = "update"
    /\ nops = MaxOps
    /\ \E key \in TextKeys :
          LET r == common_prefix_predict(Cedar, key) IN
          /\ r.st = "ok"
          /\ Len(r.at) = 3
          /\ KeyOf(Cedar, r.at[2]) = last.key
          /\ Cardinality({KeyOf(Cedar, r.at[i]) : i \in 1 .. 3}) = 3

\* the texts scanned: every byte string of at most MaxKeyLen + 1 bytes
Texts == UNION {KeysOver(Bytes, n) : n \in 0 .. MaxKeyLen + 1}

\* text[start..end], start 0-based and end exclusive
Slice(text, start, end) == SubSeq(text, start + 1, end)

\* the ends, in increasing order, of the slices of text from start that the
\* predicate Stored holds of (no key longer than MaxKeyLen is ever inserted)
EndsFrom(Stored(_), text, start) ==
    Ascending({e \in start + 1 .. Len(text) :
                  e - start <= MaxKeyLen /\ Stored(Slice(text, start, e))})

\* the triples <<value, start, end>> of the stored keys equal to a slice of text,
\* by increasing start and, within one start, increasing end
RECURSIVE ScanExpected(_, _)
ScanExpected(text, start) ==
    IF start >= Len(text) THEN <<>>
    ELSE LET ends == EndsFrom(InDict, text, start) IN
         [i \in 1 .. Len(ends) |-> <<dict[Slice(text, start, ends[i])][1], start, ends[i]>>]
             \o ScanExpected(text, start + 1)

(***************************************************************************)
(* C13: common_prefix_scan(text) returns one triple (value, start, end)    *)
(* for every slice text[start..end] that is a stored key, with the value   *)
(* of that key, by increasing start and within one start by increasing     *)
(* end, and nothing else.                                                  *)
(***************************************************************************)
ScanExact ==
    status = "ok" =>
        \A text \in Texts :
            LET r == common_prefix_scan(Cedar, text) IN
            r.st = "ok" /\ r.out = ScanExpected(text, 0)

\* C13 under SpecText: the same for the texts without a NUL byte, in every state
TextScanAgrees ==
    \A text \in {t \in Texts : \A i \in 1 .. Len(t) : t[i] # 0} :
        LET r == common_prefix_scan(Cedar, text) IN
        r.st = "ok" /\ r.out = ScanExpected(text, 0)

\* the same triples, for the keys that exact_match_search finds
RECURSIVE ScanOfLookups(_, _)
ScanOfLookups(text, start) ==
    IF start >= Len(text) THEN <<>>
    ELSE LET ends == EndsFrom(InTrie, text, start) IN
         [i \in 1 .. Len(ends) |-> <<Answer(Slice(text, start, ends[i]))[2], start, ends[i]>>]
             \o ScanOfLookups(text, start + 1)

\* C13 under SpecNoNul for the keys as exact_match_search sees them: whenever
\* common_prefix_scan returns, its triples are those of the slices that
\* exact_match_search finds
ScanAgreesWithLookup ==
    status = "ok" =>
        \A text \in Texts :
            LET r == common_prefix_scan(Cedar, text) IN
            r.st = "ok" => r.out = ScanOfLookups(text, 0)

\* no key is stored by the calls made so far
NothingStored == \A k \in Keys : dict[k] = <<>>

(***************************************************************************)
(* C14: the erase of the last stored key returns and leaves a trie in      *)
(* which exact_match_search finds no key; an update(k, v) made on a trie   *)
(* emptied in this way returns, and exact_match_search(k) then finds v.    *)
(***************************************************************************)
EraseAllThenReinsert ==
    [][/\ (/\ last'.op = "erase"
           /\ dict[last'.key] # <<>>
           /\ \A k \in Keys \ {last'.key} : dict[k] = <<>>) =>
              /\ status' = "ok"
              /\ \A k \in Keys : After(k) = <<"None">>
       /\ (/\ last'.op = "update"
           /\ last'.key # <<>>
           /\ last.op = "erase"
           /\ NothingStored) =>
              /\ status' = "ok"
              /\ After(last'.key) = <<"Some", last'.value, Len(last'.key)>>]_vars

(***************************************************************************)
(* C15: an update(k, v) with a non-empty key of any bytes, the byte 0      *)
(* included, and a value other than -1 returns; exact_match_search(k) then *)
(* finds v, every other key found before is found with its value, the     *)
(* root is still the root (its check is what it was), and the lookup of no *)
(* key fails.                                                              *)
(***************************************************************************)
ArbitraryByteKeys ==
    [][(last'.op = "update" /\ last'.key # <<>> /\ last'.value # CEDAR_NO_VALUE) =>
          /\ status' = "ok"
          /\ After(last'.key) = <<"Some", last'.value, Len(last'.key)>>
          /\ \A k \in Keys \ {last'.key} : InTrie(k) => After(k) = Answer(k)
          /\ array'[0].check = array[0].check
          /\ \A k \in Keys : After(k)[1] \in {"Some", "None"}]_vars

\* C15 for the keys without a NUL byte, under SpecText: the root is never taken as
\* a node of a key
TextRootIntact == array[0].check = -1

(***************************************************************************)
(* Structure of the arrays.                                                *)
(***************************************************************************)
\* the nodes of the blocks reserved so far; the entries from size up to
\* capacity are the default Node of resize and belong to no block yet
Nodes == 0 .. size - 1

Labels == 0 .. BlockSize - 1

\* node n is in use: it is the root or its check names a parent
InUse(n) == n = 0 \/ array[n].check >= 0

(***************************************************************************)
(* C16: between calls, every node n in use other than the root has a       *)
(* parent p = array[n].check that is a node in use, and is the child of p  *)
(* for one label l: array[p].base XOR l = n.                               *)
(***************************************************************************)
ParentLinks ==
    status = "ok" =>
        \A n \in Nodes \ {0} :
            array[n].check >= 0 =>
                /\ array[n].check \in Nodes
                /\ InUse(array[n].check)
                /\ \E l \in Labels : Xor(array[array[n].check].base_, l) = n

\* the blocks that add_block has set up
Blocks == 0 .. size \div BlockSize - 1

\* the free nodes of block b: the nodes of b, other than the root, with a negative
\* check
FreeNodes(b) == {n \in Nodes \ {0} : BlockOf(n) = b /\ array[n].check < 0}

\* the nodes met by following the -check links from the free node start until start
\* comes again; <<-1>> when a link leaves the free nodes or start does not come
\* again
RECURSIVE CycleWalk(_, _, _, _)
CycleWalk(start, n, acc, fuel) ==
    IF n \notin Nodes \ {0} THEN <<-1>>
    ELSE IF array[n].check >= 0 \/ fuel = 0 THEN <<-1>>
    ELSE IF -array[n].check = start THEN Append(acc, n)
    ELSE CycleWalk(start, -array[n].check, Append(acc, n), fuel - 1)

\* the free nodes of block b have negative base and check and each lies on a cycle
\* of -check links of exactly count nodes, all of them in b
FreeCycle(b, count) ==
    \A n \in FreeNodes(b) :
        /\ array[n].base_ < 0
        /\ LET cyc == CycleWalk(n, n, <<>>, BlockSize) IN
           /\ Len(cyc) = count
           /\ \A i \in 1 .. Len(cyc) : BlockOf(cyc[i]) = b

(***************************************************************************)
(* C17: in the state that new() produces and between calls afterwards, for *)
(* every block B, block 0 included: the free nodes of B have base < 0 and  *)
(* check < 0, every free node of B lies on a cycle of -check links of      *)
(* exactly B.num nodes, all in B, and B.num is within 0 .. 256 (the block  *)
(* size).                                                                  *)
(***************************************************************************)
FreeCycles ==
    status = "ok" =>
        \A b \in Blocks :
            /\ blocks[b].num \in 0 .. BlockSize
            /\ FreeCycle(b, blocks[b].num)

\* C17 under SpecText, with the count of block 0 put right: block 0 has num - 1 free
\* nodes (node 0, the root, is counted in num and never free), every other block
\* has num, and a block with free nodes has its e_head on their cycle
TextFreeCycles ==
    \A b \in Blocks :
        LET count == IF b = 0 THEN blocks[b].num - 1 ELSE blocks[b].num IN
        /\ blocks[b].num \in 0 .. BlockSize
        /\ FreeCycle(b, count)
        /\ Cardinality(FreeNodes(b)) = count
        /\ count > 0 => blocks[b].e_head \in FreeNodes(b)

BlockTypes == {"Full", "Closed", "Open"}

\* the blocks met by following next from the head of a list until the head comes
\* again; <<-1>> when a link leaves the blocks or the head does not come again
RECURSIVE ListWalk(_, _, _, _)
ListWalk(head, b, acc, fuel) ==
    IF b \notin DOMAIN blocks \/ fuel = 0 THEN <<-1>>
    ELSE IF blocks[b].next = head THEN Append(acc, b)
    ELSE ListWalk(head, blocks[b].next, Append(acc, b), fuel - 1)

\* the blocks of the list t; a head of 0 is the empty list
ListOf(t) ==
    IF ListHead(Cedar, t) = 0 THEN <<>>
    ELSE ListWalk(ListHead(Cedar, t), ListHead(Cedar, t), <<>>, capacity)

InList(b, t) == \E i \in 1 .. Len(ListOf(t)) : ListOf(t)[i] = b

\* the list that a block belongs in by its num and trial
ClassOf(b) ==
    IF blocks[b].num = 0 THEN "Full"
    ELSE IF blocks[b].num = 1 \/ blocks[b].trial = max_trial THEN "Closed"
    ELSE "Open"

BlockListsAfterTransfers ==
    /\ status = "ok"
    /\ \E b \in Blocks \ {0} : InList(b, "Full")

(***************************************************************************)
(* Sibling chains.  The children of node p are the nodes base[p] XOR l     *)
(* whose check is p; a node reached by label 0 holds a value and has no    *)
(* children.  The chain of p is read as push_sibling and pop_sibling walk  *)
(* it: from n_infos[p].child through the sibling fields of the children    *)
(* until a sibling of 0.  The root's child field stays 0 and its chain     *)
(* continues in n_infos[0].sibling, so a leading 0 lists label 0 only when *)
(* a child with label 0 exists.                                            *)
(***************************************************************************)
IsValueNode(n) ==
    /\ n # 0
    /\ array[n].check \in Nodes
    /\ array[array[n].check].base_ = n

ChildLabels(p) ==
    IF IsValueNode(p) \/ array[p].base_ < 0 THEN {}
    ELSE { l \in Labels :
             /\ Xor(array[p].base_, l) \in Nodes \ {0}
             /\ array[Xor(array[p].base_, l)].check = p }

RECURSIVE ChainWalk(_, _, _, _)
ChainWalk(p, l, acc, fuel) ==
    IF fuel = 0 \/ Xor(array[p].base_, l) \notin Nodes THEN <<-1>>
    ELSE LET s == n_infos[Xor(array[p].base_, l)].sibling IN
         IF s = 0 THEN Append(acc, l)
         ELSE ChainWalk(p, s, Append(acc, l), fuel - 1)

SiblingChain(p) ==
    IF IsValueNode(p) \/ array[p].base_ < 0 THEN <<>>
    ELSE IF p # 0 /\ n_infos[p].child = 0 /\ 0 \notin ChildLabels(p) THEN <<>>
    ELSE ChainWalk(p, n_infos[p].child, <<>>, BlockSize + 1)

ChainLabels(p) ==
    { SiblingChain(p)[i] : i \in 1 .. Len(SiblingChain(p)) }
        \ (IF 0 \in ChildLabels(p) THEN {} ELSE {0})

(***************************************************************************)
(* C19: after every call that returned, for every node in use the sibling  *)
(* chain that starts at its child label ends (is acyclic), is strictly     *)
(* increasing in byte value and lists exactly the labels of the node's     *)
(* children in use, none missing and none extra.                           *)
(***************************************************************************)
SiblingChains ==
    status = "ok" =>
        \A p \in Nodes :
            InUse(p) =>
                /\ SiblingChain(p) # <<-1>>
                /\ \A i \in 1 .. Len(SiblingChain(p)) - 1 :
                      SiblingChain(p)[i] < SiblingChain(p)[i + 1]
                /\ ChainLabels(p) = ChildLabels(p)
                /\ (IsValueNode(p) \/ array[p].base_ < 0) => n_infos[p].child = 0

(***************************************************************************)
(* Sizes of the vectors.                                                   *)
(***************************************************************************)
RECURSIVE IsPowerOfTwo(_)
IsPowerOfTwo(n) == n = 1 \/ (n > 1 /\ n % 2 = 0 /\ IsPowerOfTwo(n \div 2))

Sizes ==
    /\ size % BlockSize = 0
    /\ capacity >= size
    /\ IsPowerOfTwo(capacity)
    /\ DOMAIN array = 0 .. capacity - 1
    /\ DOMAIN n_infos = 0 .. capacity - 1
    /\ DOMAIN blocks = 0 .. capacity \div BlockSize - 1

(***************************************************************************)
(* C20: in every reachable state size is a multiple of the block size,     *)
(* capacity is at least size and a power of two, the node and sibling-info *)
(* vectors have length capacity and the block vector has one entry per     *)
(* block of capacity; and no step decreases size.                          *)
(***************************************************************************)
SizeAndCapacity == []Sizes /\ [][size' >= size]_vars

\* C20 witness: blocks have been appended and the last doubling of capacity
\* reserved more than the blocks in use.
CapacityDoubledBeyondSize == size > BlockSize /\ capacity > size

FreeCycleOf(b) ==
    IF blocks[b].num = 0 THEN {}
    ELSE LET cyc == CycleWalk(blocks[b].e_head, blocks[b].e_head, <<>>, BlockSize)
         IN {cyc[i] : i \in 1 .. Len(cyc)} \cap Nodes

(***************************************************************************)
(* C22: between calls a node is free iff its check is negative: every node *)
(* on the free cycle of its block has check < 0, and every node with       *)
(* check < 0 is on the free cycle of its block.                            *)
(***************************************************************************)
FreeIffNegativeCheck ==
    status = "ok" =>
        \A n \in Nodes : n \in FreeCycleOf(BlockOf(n)) <=> array[n].check < 0

\* C22 for the nodes other than the root, under SpecText
TextFreeIffNegativeCheck ==
    \A n \in Nodes \ {0} : n \in FreeCycleOf(BlockOf(n)) <=> array[n].check < 0


\* the nodes one call of erase__ hands to push_e_node: the `e` of every round
\* of its loop
RECURSIVE erase_freed(_, _, _, _)
erase_freed(c, from, e, fuel) ==
    IF c.st # "ok" \/ fuel = 0 \/ ~InArr(c, from) THEN {}
    ELSE LET n == c.array[from]
             i == Xor(n.base_, c.n_infos[from].child)
         IN IF ~InArr(c, i) THEN {}
            ELSE LET has_sibling == c.n_infos[i].sibling # 0
                     c1 == IF has_sibling
                           THEN pop_sibling(c, from, n.base_, AsU8(Xor(n.base_, e)))
                           ELSE c
                 IN IF c1.st # "ok" THEN {}
                    ELSE {e} \cup The({
                         IF c2.st # "ok" \/ has_sibling THEN {}
                         ELSE erase_freed(c2, c2.array[from].check, from, fuel - 1) :
                         c2 \in {push_e_node(c1, e)} })

\* the nodes erase_(key) hands to push_e_node
ErasePushed(c, key) ==
    The({
    IF f.st = "ok" /\ f.some /\ InArr(c, f.from)
    THEN erase_freed(c, f.from, c.array[f.from].base_, Fuel(c))
    ELSE {} :
    f \in {find(c, key, 0)} })

(***************************************************************************)
(* C23: the root is never freed: no call of erase, for any key and any     *)
(* reachable trie, hands node 0 to push_e_node.                            *)
(***************************************************************************)
RootNeverFreed ==
    [][last'.op = "erase" => 0 \notin ErasePushed(Cedar, last'.key)]_vars

\* C23 for the erase of stored text keys
StoredEraseKeepsRoot ==
    [][(last'.op = "erase" /\ dict[last'.key] # <<>>) =>
          0 \notin ErasePushed(Cedar, last'.key)]_vars


\* the cursor of key k moved in this step: exact_match_search finds k before and
\* after it, at two different nodes
CursorMoved(k) ==
    LET b == exact_match_search(Cedar, k)
        a == exact_match_search(Cedar', k)
    IN /\ b.st = "ok" /\ b.some
       /\ a.st = "ok" /\ a.some
       /\ a.from # b.from

PopTakesFreeSlots ==
    [][/\ last'.op = "update" => ~update(Cedar, last'.key, last'.value).in_use_taken
       /\ last'.op = "build" => ~build(Cedar, last'.pairs).in_use_taken]_vars


\* the record the last call of this step leaves, computed from the state before
CallResult ==
    IF last'.op = "update" THEN update(Cedar, last'.key, last'.value)
    ELSE IF last'.op = "erase" THEN erase(Cedar, last'.key)
    ELSE build(Cedar, last'.pairs)

ChildSets ==
    {ch \in UNION {[1 .. n -> Bytes] : n \in 2 .. MaxByte + 1} :
        \A i \in 1 .. Len(ch) - 1 : ch[i] < ch[i + 1]}

\* find_places does not walk the free cycle of block b for the child set ch
Skips(b, ch) == ~(blocks[b].num >= Len(ch) /\ Len(ch) < blocks[b].reject)

\* the first block of the Open list is one that find_places(ch) skips
SkipsHead(ch) ==
    /\ status = "ok"
    /\ blocks_head_open # 0
    /\ InBlk(Cedar, blocks_head_open)
    /\ Skips(blocks_head_open, ch)

SkippedBlockClosed ==
    \A ch \in ChildSets :
        SkipsHead(ch) =>
            LET b == blocks_head_open
                r == find_places(Cedar, ch)
            IN r.st = "ok" =>
                  /\ r.blocks[b].trial = blocks[b].trial + 1
                  /\ r.blocks[b].trial = max_trial =>
                        on_list(r, b, r.blocks_head_closed, r.blocks_head_closed, Fuel(r))

OpenBlocks == {ListOf("Open")[i] : i \in 1 .. Len(ListOf("Open"))} \cap DOMAIN blocks

\* block b has a free node e from which every slot (e XOR ch[1]) XOR ch[i] is free
Fits(b, ch) ==
    \E e \in FreeCycleOf(b) :
        \A i \in 1 .. Len(ch) :
            LET t == Xor(Xor(e, ch[1]), ch[i])
            IN t \in Nodes /\ array[t].check < 0

(***************************************************************************)
(* C28: reject is sound: whenever find_places would skip an Open block B   *)
(* because |children| >= B.reject, the children do not fit in B: no free   *)
(* node e of B has all its slots (e XOR children[0]) XOR children[i] free. *)
(***************************************************************************)
RejectSound ==
    status = "ok" =>
        \A b \in OpenBlocks, ch \in ChildSets :
            Len(ch) >= blocks[b].reject => ~Fits(b, ch)

IsPrefix(key, k) == Len(key) <= Len(k) /\ SubSeq(k, 1, Len(key)) = key

\* the items common_prefix_predict(key) yields carry the depth of the key
\* spelled by the path to the cursor they were read at, and no step of the
\* iterator fails
DepthsOf(key) ==
    LET r == common_prefix_predict(Cedar, key) IN
    /\ r.st # "panic"
    /\ \A i \in 1 .. Len(r.out) :
          /\ IsPrefix(key, KeyOf(Cedar, r.at[i]))
          /\ r.out[i][2] = Len(KeyOf(Cedar, r.at[i])) - Len(key)

(***************************************************************************)
(* C31: every pair (value, depth) that common_prefix_predict(key) yields   *)
(* has depth = length of the matching stored key - length of key, so 0 for *)
(* key itself, and the depth counter is never decremented below 0 while    *)
(* the iterator ascends.                                                   *)
(***************************************************************************)
PredictDepths == status = "ok" => \A key \in Keys : DepthsOf(key)


\* find_places returns for every set of children it can be given
PlacesFound == \A ch \in ChildSets : find_places(Cedar, ch).st # "hang"

(***************************************************************************)
(* C32: every call of find_places terminates: it passes each block of the  *)
(* Open list at most once and then returns a node that fits or adds a      *)
(* block; consequently every call of update (and of build) terminates.     *)
(***************************************************************************)
UpdateTerminates ==
    /\ [](status = "ok" => PlacesFound)
    /\ [][last'.op \in {"update", "build"} => status' # "hang"]_vars


\* the e_head of block b is one of the free nodes of b
HeadIsFree(b) ==
    /\ blocks[b].e_head \in Nodes \ {0}
    /\ BlockOf(blocks[b].e_head) = b
    /\ array[blocks[b].e_head].check < 0
    /\ blocks[b].e_head \in FreeCycleOf(b)

\* the node find_place returns is free in the trie it returns it from
PlaceIsFree ==
    LET c == find_place(Cedar) IN
    /\ c.st = "ok"
    /\ c.ret \in 1 .. c.size - 1
    /\ c.array[c.ret].check < 0

AcceptedKeyPresent ==
    (status = "ok" /\ last.op = "update") =>
        /\ find(Cedar, last.key, 0).st = "ok"
        /\ find(Cedar, last.key, 0).some
        /\ find(Cedar, last.key, 0).value # CEDAR_NO_VALUE
        /\ exact_match_search(Cedar, last.key).some
        /\ common_prefix_search(Cedar, last.key).st = "ok"
        /\ Len(common_prefix_search(Cedar, last.key).out) >= 1

\* the keys stored and their non-empty prefixes: one node each, and one value
\* node for each key stored
StoredKeys == {k \in DOMAIN dict : dict[k] # <<>>}

StoredPrefixes ==
    UNION {{SubSeq(k, 1, n) : n \in 1 .. Len(k)} : k \in StoredKeys}

InUseNodes == {n \in Nodes \ {0} : array[n].check >= 0}

(***************************************************************************)
(* C35: between calls the nodes in use are the root and the nodes of the   *)
(* trie of the stored keys, one for each distinct non-empty prefix and one *)
(* value node for each key; every node in use that was entered by a label  *)
(* other than 0 has a base >= 0 and a child in use; once every key has     *)
(* been erased every node but the root is free.                            *)
(***************************************************************************)
NoLeakedNodes ==
    status = "ok" =>
        /\ Cardinality(InUseNodes)
               = Cardinality(StoredPrefixes) + Cardinality(StoredKeys)
        /\ \A n \in InUseNodes :
               ~IsValueNode(n) => (array[n].base_ >= 0 /\ ChildLabels(n) # {})
        /\ StoredKeys = {} => InUseNodes = {}

\* no index that a query or an erase of key computes lies outside the arrays
InBounds(key) ==
    /\ find(Cedar, key, 0).st # "panic"
    /\ common_prefix_search(Cedar, key).st # "panic"
    /\ common_prefix_predict(Cedar, key).st # "panic"
    /\ erase(Cedar, key).st # "panic"

(***************************************************************************)
(* C36: between calls, every array index that find, erase, begin and next  *)
(* compute for a key lies inside the arrays: no query and no erase indexes *)
(* out of bounds.                                                          *)
(***************************************************************************)
TraversalInBounds == status = "ok" => \A key \in Keys : InBounds(key)

=============================================================================
